---- MODULE Spec2Model ----
(***************************************************************************)
(* Flow reconstruction and live packet capture of the capture package:     *)
(*   src/src/capture/pcap_analyzer.py    PcapAnalyzer                      *)
(*   src/src/capture/live_capture.py     LiveCapture                       *)
(*   src/src/capture/network_capture.py  PacketCapture, SimulatedCapture,  *)
(*                                       create_capture                    *)
(*                                                                         *)
(* Timestamps are integers counting microseconds (packet.time is a float   *)
(* number of seconds in the source; 1e-6 s is 1 here).  IP addresses are   *)
(* small integers: the source compares them as strings, any total order.   *)
(* The specifications share the variables: SpecPcap and its variants for   *)
(* offline analysis, SpecLive (LiveCapture), SpecNet (the object           *)
(* create_capture returns) and the specifications of both capture classes. *)
(***************************************************************************)
EXTENDS Integers, Sequences, FiniteSets, TLC

\* ------------------------------------------------------------- bounds
\* Packets an analysed capture file holds at most.
MaxPackets == 3
\* Packet timestamps are 0, 10 ms, ..., MaxTick * 10 ms.
MaxTick == 1

\* Hosts 1..MaxHost of the single-TCP-flow scenario.
MaxHost == 4

\* Capacity of the capture queue (maxsize is 10000, 1000 and 500 in the source).
QueueCap == 2
\* Packets with an IP layer the capture threads receive or generate at most.
MaxDeliver == 3
\* start() calls at most, so capture threads created at most.
MaxStarts == 2

\* A flow_timeout the caller passes to PcapAnalyzer, in microseconds: shorter
\* than the 10 ms between two timestamps.
ShortTimeoutUs == 5000

\* ---------------------------------------------------------- constants
\* max(..., 1e-6) in _extract_features, in microseconds.
EpsilonUs == 1
\* flow_timeout: float = 120.0, in microseconds
FlowTimeoutUs == 120000000
\* max_packets: Optional[int] = None
None == -1
\* gpQ0 when it holds no queue (no packet is numbered None)
NoQueue == <<None>>

VARIABLES
    scapy,          \* SCAPY_AVAILABLE, fixed when the modules are imported
    \* PcapAnalyzer
    flow_timeout,   \* self.flow_timeout, in microseconds
    flows,          \* self.flows: flow key -> flow record
    anPc,           \* position of analyze: "idle" or "reading" (inside the reader loop)
    packet_count,   \* analyze's local packet_count
    max_packets,    \* analyze's argument max_packets
    anResult,       \* how the last analyze call ended
    ipSeen,         \* history: packets with an IP layer processed since flows.clear()
    seen,           \* history: <<source endpoint, destination endpoint, protocol>> of those
    lastPkt,        \* history: the packet of the latest _process_packet call
    lastNew,        \* history: that call created the flow record
    lastLens,       \* history: <<len(fwd), len(bwd)>> of its flow before that call
    summary,        \* what get_summary returned; NoSummary if not called since the last analyze call
    brokeAt,        \* history: the packet the reader loop held when it broke off at the
                    \* cap, "ip" or "nonip"; "none" if the last analyze did not break off
    twin,           \* a twin analyzer is run beside the analyzer: fixed for a run
    freshFlows,     \* self.flows of the twin: a PcapAnalyzer constructed anew for every
                    \* analyze call, given the same call and reading the same packets;
                    \* empty in the runs without a twin
    anRows,         \* the rows analyze returned, by flow key; none while it has not returned
    \* the capture object: LiveCapture, PacketCapture or SimulatedCapture
    kind,           \* its class: "live", "packet" or "simulated"
    running,        \* self.running
    packet_queue,   \* self.packet_queue, oldest first; a packet is its arrival number
    self_packet_count, \* self.packet_count
    start_time,     \* self.start_time: None, or the number of the start() call that set it
    thread,         \* self.thread / capture_thread / generator_thread: None or a thread
    tpc,            \* position of each capture thread
    pend,           \* the packet each capture thread is about to enqueue (0: none)
    mainPc,         \* position of the caller of start, stop and get_packets
    gpMax,          \* get_packets' argument
    gpPackets,      \* get_packets' local list packets
    gpResult,       \* what the last get_packets returned
    startResult,    \* how the last start() ended
    startCalls,     \* history: start() calls so far
    delivered,      \* history: packets with an IP layer handed to the callbacks so far
    taken,          \* history: every packet get_packets removed, in order
    refused,        \* history: the packets that met a full queue at their first put
    gpQ0,           \* history: the queue when get_packets was called with no capture
                    \* thread alive; NoQueue outside such a call
    stoppedUnstarted, \* history: stop() was called on the object before any start()
                    \* created a thread, and start() was not called since
    overlap         \* history: the consumer removed a packet while a callback was
                    \* enqueueing, or a packet arrived after the consumer removed one

pcapVars ==
    <<flows, anPc, packet_count, max_packets, anResult, ipSeen, seen, lastPkt,
      lastNew, lastLens,
      summary, brokeAt,
      anRows,
      flow_timeout,
      freshFlows,
      twin>>
capVars ==
    <<kind, running, packet_queue, self_packet_count, start_time, thread, tpc, pend,
      mainPc, gpMax, gpPackets, gpResult, startResult, startCalls, delivered, taken,
      refused, overlap,
      gpQ0,
      stoppedUnstarted>>
vars == <<scapy, pcapVars, capVars>>

\* ------------------------------------------------------------ packets
Max(a, b) == IF a >= b THEN a ELSE b

Times == {k * 10000 : k \in 0..MaxTick}

\* Host 1 port 1234 (a client) and host 2 port 80 (a server): a packet goes
\* one way or the other, <<src, sport, dst, dport>>.
Pairs == {<<1, 1234, 2, 80>>, <<2, 80, 1, 1234>>}

\* tcp.flags values: SYN, SYN|ACK, FIN|RST|PSH|ACK
TcpFlagValues == {2, 18, 29}

Packet(ip, src, sport, dst, dport, proto, tcpflags, time, len, payload) ==
    [ip |-> ip, src |-> src, sport |-> sport, dst |-> dst, dport |-> dport,
     proto |-> proto, tcpflags |-> tcpflags, time |-> time, len |-> len,
     payload |-> payload]

\* A frame without an IP layer (ARP, ...): only its absence of IP matters.
NonIP == Packet(FALSE, 0, 0, 0, 0, 0, 0, 0, 60, 0)

TcpPackets ==
    {Packet(TRUE, c[1], c[2], c[3], c[4], 6, f, t, 60, 0) :
        c \in Pairs, f \in TcpFlagValues, t \in Times}
UdpPackets ==
    {Packet(TRUE, c[1], c[2], c[3], c[4], 17, 0, t, 60, 0) :
        c \in Pairs, t \in Times}
IPPackets == TcpPackets \cup UdpPackets
Packets == IPPackets \cup {NonIP}

\* A sample of the packets: every protocol, direction and timestamp, with
\* SYN|ACK on the TCP segments, and every flag combination at time 0.
SamplePackets == {p \in Packets : p.proto # 6 \/ p.tcpflags = 18 \/ p.time = 0}

\* ------------------------------------------------- PcapAnalyzer, pure
HasIP(p) == p.ip
HasTCP(p) == p.ip /\ p.proto = 6
HasUDP(p) == p.ip /\ p.proto = 17

\* src_port = dst_port = 0 unless the packet has a TCP or UDP layer
SrcPort(p) == IF HasTCP(p) \/ HasUDP(p) THEN p.sport ELSE 0
DstPort(p) == IF HasTCP(p) \/ HasUDP(p) THEN p.dport ELSE 0
SrcEndpoint(p) == <<p.src, SrcPort(p)>>
DstEndpoint(p) == <<p.dst, DstPort(p)>>

\* bool(tcp.flags & mask), mask a power of two
Bit(v, mask) == (v \div mask) % 2 = 1

FlagNames == {"SYN", "ACK", "FIN", "RST", "PSH"}
FlagMask(n) ==
    CASE n = "SYN" -> 2 [] n = "ACK" -> 16 [] n = "FIN" -> 1
      [] n = "RST" -> 4 [] n = "PSH" -> 8

\* flags = {} unless TCP in packet; then the five booleans
Flags(p) ==
    IF HasTCP(p) THEN [n \in FlagNames |-> Bit(p.tcpflags, FlagMask(n))]
    ELSE [n \in {} |-> FALSE]

\* flags.get(name): a missing key is falsy
FlagGet(fl, n) == n \in DOMAIN fl /\ fl[n]

\* Python's <= on (ip, port) tuples: lexicographic
TupleLE(a, b) == a[1] < b[1] \/ (a[1] = b[1] /\ a[2] <= b[2])

\* tuple(sorted([a, b]))
Sorted2(a, b) == IF TupleLE(a, b) THEN <<a, b>> ELSE <<b, a>>

\* Mutant of FlowKeyOf: the endpoints are not sorted.
FlowKeyUnsorted(src, dst, proto) == <<src, dst, proto>>

\* key = tuple(sorted([(src_ip, src_port), (dst_ip, dst_port)])) + (protocol,)
FlowKeyOf(src, dst, proto) == Sorted2(src, dst) \o <<proto>>

FlowKey(p) == FlowKeyOf(SrcEndpoint(p), DstEndpoint(p), p.proto)

\* is_forward = (src_ip, src_port) <= (dst_ip, dst_port)
IsForward(p) == TupleLE(SrcEndpoint(p), DstEndpoint(p))

PktInfo(p) ==
    [timestamp |-> p.time, length |-> p.len, payload |-> p.payload,
     flags |-> Flags(p)]

\* the record created when key is not in self.flows; 'end' is set right after
NewFlow(p) ==
    [src_ip |-> p.src, dst_ip |-> p.dst,
     src_port |-> SrcPort(p), dst_port |-> DstPort(p),
     protocol |-> p.proto, start |-> p.time, end |-> p.time,
     fwd |-> <<>>, bwd |-> <<>>, fwd_iat |-> <<>>, bwd_iat |-> <<>>,
     last_fwd |-> p.time, last_bwd |-> p.time,
     syn |-> 0, ack |-> 0, fin |-> 0, rst |-> 0, psh |-> 0]

\* timestamp - flow['last_fwd'], timestamp - flow['last_bwd']
IatSample(ts, last) == ts - last

\* Mutant of Directed: the IAT sample is appended for the first packet of a
\* direction too.
DirectedAlwaysIat(f, p) ==
    IF IsForward(p)
    THEN [f EXCEPT
            !.fwd_iat = Append(@, IatSample(p.time, f.last_fwd)),
            !.last_fwd = p.time,
            !.fwd = Append(@, PktInfo(p))]
    ELSE [f EXCEPT
            !.bwd_iat = Append(@, IatSample(p.time, f.last_bwd)),
            !.last_bwd = p.time,
            !.bwd = Append(@, PktInfo(p))]

\* if is_forward: ... else: ...
Directed(f, p) ==
    IF IsForward(p)
    THEN [f EXCEPT
            !.fwd_iat = IF f.fwd # <<>>
                        THEN Append(@, IatSample(p.time, f.last_fwd)) ELSE @,
            !.last_fwd = p.time,
            !.fwd = Append(@, PktInfo(p))]
    ELSE [f EXCEPT
            !.bwd_iat = IF f.bwd # <<>>
                        THEN Append(@, IatSample(p.time, f.last_bwd)) ELSE @,
            !.last_bwd = p.time,
            !.bwd = Append(@, PktInfo(p))]

Inc(b) == IF b THEN 1 ELSE 0

\* Mutant of Counted: only the first flag found on the packet is counted.
CountedFirstOnly(f, p) ==
    IF FlagGet(Flags(p), "SYN") THEN [f EXCEPT !.syn = @ + 1]
    ELSE IF FlagGet(Flags(p), "ACK") THEN [f EXCEPT !.ack = @ + 1]
    ELSE IF FlagGet(Flags(p), "FIN") THEN [f EXCEPT !.fin = @ + 1]
    ELSE IF FlagGet(Flags(p), "RST") THEN [f EXCEPT !.rst = @ + 1]
    ELSE IF FlagGet(Flags(p), "PSH") THEN [f EXCEPT !.psh = @ + 1]
    ELSE f

\* for flag in ['syn', 'ack', 'fin', 'rst', 'psh']: if flags.get(flag.upper()) ...
Counted(f, p) ==
    [f EXCEPT
        !.syn = @ + Inc(FlagGet(Flags(p), "SYN")),
        !.ack = @ + Inc(FlagGet(Flags(p), "ACK")),
        !.fin = @ + Inc(FlagGet(Flags(p), "FIN")),
        !.rst = @ + Inc(FlagGet(Flags(p), "RST")),
        !.psh = @ + Inc(FlagGet(Flags(p), "PSH"))]

\* Mutant of ProcessPacket: the record is created anew for every packet.
ProcessPacketRecreate(fl, p) ==
    IF ~HasIP(p) THEN fl
    ELSE LET key == FlowKey(p)
             f1 == [NewFlow(p) EXCEPT !.end = p.time]
             f3 == Counted(Directed(f1, p), p)
         IN [k \in DOMAIN fl \cup {key} |-> IF k = key THEN f3 ELSE fl[k]]

\* Mutant of ProcessPacket: a frame without an IP layer is aggregated too.
ProcessPacketAnyFrame(fl, p) ==
    LET key == FlowKey(p)
        f0 == IF key \in DOMAIN fl THEN fl[key] ELSE NewFlow(p)
        f1 == [f0 EXCEPT !.end = p.time]
        f3 == Counted(Directed(f1, p), p)
    IN [k \in DOMAIN fl \cup {key} |-> IF k = key THEN f3 ELSE fl[k]]

\* Mutant of ProcessPacket: every packet rewrites the recorded endpoints and
\* start time of its flow.
ProcessPacketRewrite(fl, p) ==
    IF ~HasIP(p) THEN fl
    ELSE LET key == FlowKey(p)
             f0 == IF key \in DOMAIN fl THEN fl[key] ELSE NewFlow(p)
             f1 == [f0 EXCEPT !.end = p.time, !.start = p.time,
                              !.src_ip = p.src, !.dst_ip = p.dst,
                              !.src_port = SrcPort(p), !.dst_port = DstPort(p)]
             f3 == Counted(Directed(f1, p), p)
         IN [k \in DOMAIN fl \cup {key} |-> IF k = key THEN f3 ELSE fl[k]]

\* Mutant of ProcessPacket: a record idle for more than flow_timeout is
\* replaced by a new one.
ProcessPacketExpire(fl, p) ==
    IF ~HasIP(p) THEN fl
    ELSE LET key == FlowKey(p)
             f0 == IF key \in DOMAIN fl /\ p.time - fl[key].end <= flow_timeout
                   THEN fl[key] ELSE NewFlow(p)
             f1 == [f0 EXCEPT !.end = p.time]
             f3 == Counted(Directed(f1, p), p)
         IN [k \in DOMAIN fl \cup {key} |-> IF k = key THEN f3 ELSE fl[k]]

\* _process_packet as a function of self.flows
ProcessPacket(fl, p) ==
    IF ~HasIP(p) THEN fl
    ELSE LET key == FlowKey(p)
             f0 == IF key \in DOMAIN fl THEN fl[key] ELSE NewFlow(p)
             f1 == [f0 EXCEPT !.end = p.time]
             f3 == Counted(Directed(f1, p), p)
         IN [k \in DOMAIN fl \cup {key} |-> IF k = key THEN f3 ELSE fl[k]]

\* Mutant of Duration: no lower bound.
DurationUnclamped(f) == f.end - f.start

\* duration = max(f.get('end', f['start']) - f['start'], 1e-6), in microseconds
Duration(f) == Max(f.end - f.start, EpsilonUs)

RECURSIVE SumLen(_)
SumLen(s) == IF s = <<>> THEN 0 ELSE Head(s).length + SumLen(Tail(s))

\* one row of _extract_features; the rates are floored here (true division in
\* the source), per second with the duration in microseconds
Features(f) ==
    [src_ip |-> f.src_ip, dst_ip |-> f.dst_ip,
     src_port |-> f.src_port, dst_port |-> f.dst_port,
     protocol |-> f.protocol,
     flow_duration |-> Duration(f),
     total_fwd_packets |-> Len(f.fwd),
     total_bwd_packets |-> Len(f.bwd),
     total_fwd_bytes |-> SumLen(f.fwd),
     total_bwd_bytes |-> SumLen(f.bwd),
     flow_bytes_per_s |-> ((SumLen(f.fwd) + SumLen(f.bwd)) * 1000000) \div Duration(f),
     flow_packets_per_s |-> ((Len(f.fwd) + Len(f.bwd)) * 1000000) \div Duration(f),
     syn_count |-> f.syn, ack_count |-> f.ack, fin_count |-> f.fin,
     rst_count |-> f.rst, psh_count |-> f.psh]

\* _extract_features: one row per record of self.flows
ExtractFeatures(fl) == [k \in DOMAIN fl |-> Features(fl[k])]

\* PROTOCOL_MAP.get(f['protocol'], 'Other')
ProtocolName(proto) ==
    CASE proto = 1 -> "ICMP" [] proto = 6 -> "TCP" [] proto = 17 -> "UDP"
      [] OTHER -> "Other"

RECURSIVE SumPackets(_, _)
\* df['total_fwd_packets'].sum() + df['total_bwd_packets'].sum()
SumPackets(rows, keys) ==
    IF keys = {} THEN 0
    ELSE LET k == CHOOSE x \in keys : TRUE
         IN rows[k].total_fwd_packets + rows[k].total_bwd_packets
                + SumPackets(rows, keys \ {k})

\* df['src_ip'].nunique() + df['dst_ip'].nunique()
UniqueIps(rows) ==
    Cardinality({rows[k].src_ip : k \in DOMAIN rows})
        + Cardinality({rows[k].dst_ip : k \in DOMAIN rows})

\* df['protocol'].value_counts().to_dict()
ProtocolCounts(rows) ==
    [n \in {ProtocolName(rows[k].protocol) : k \in DOMAIN rows} |->
        Cardinality({k \in DOMAIN rows : ProtocolName(rows[k].protocol) = n})]

\* summary before get_summary is called
NoSummary == [status |-> "none"]

\* get_summary as a function of self.flows
Summary(fl) ==
    LET df == ExtractFeatures(fl)
    IN IF DOMAIN df = {} THEN [status |-> "No flows"]
       ELSE [total_flows |-> Cardinality(DOMAIN df),
             total_packets |-> SumPackets(df, DOMAIN df),
             unique_ips |-> UniqueIps(df),
             protocols |-> ProtocolCounts(df)]

\* if max_packets and packet_count >= max_packets
Truthy(m) == m # None /\ m # 0

EmptyFlows == [k \in {} |-> 0]

Threads == 1..MaxStarts

\* ------------------------------------------------ PcapAnalyzer, steps
\* max_packets as given by the caller: the default, or a cap below the file length
MaxPacketsArgs == {None} \cup (1..(MaxPackets - 1))

\* Mutant of Analyze: the flow table is not cleared before the capture is read.
AnalyzeNoClear(exists, mp) ==
    /\ anPc = "idle"
    /\ IF ~scapy
       THEN /\ anResult' = "ImportError"
            /\ UNCHANGED <<flows, anPc, packet_count, max_packets, ipSeen, seen>>
       ELSE IF ~exists
       THEN /\ anResult' = "FileNotFoundError"
            /\ UNCHANGED <<flows, anPc, packet_count, max_packets, ipSeen, seen>>
       ELSE /\ flows' = flows
            /\ packet_count' = 0
            /\ max_packets' = mp
            /\ anPc' = "reading"
            /\ anResult' = "none"
            /\ ipSeen' = 0
            /\ seen' = {}
    /\ lastPkt' = NonIP
    /\ lastNew' = FALSE
    /\ lastLens' = <<0, 0>>
    /\ UNCHANGED <<scapy, capVars>>
    /\ summary' = NoSummary
    /\ brokeAt' = "none"
    /\ anRows' = EmptyFlows
    /\ UNCHANGED <<flow_timeout>>
    /\ freshFlows' = EmptyFlows
    /\ UNCHANGED <<twin>>

\* analyze up to the reader loop: the two checks, then flows.clear()
Analyze(exists, mp) ==
    /\ anPc = "idle"
    /\ IF ~scapy
       THEN /\ anResult' = "ImportError"
            /\ UNCHANGED <<flows, anPc, packet_count, max_packets, ipSeen, seen>>
       ELSE IF ~exists
       THEN /\ anResult' = "FileNotFoundError"
            /\ UNCHANGED <<flows, anPc, packet_count, max_packets, ipSeen, seen>>
       ELSE /\ flows' = EmptyFlows
            /\ packet_count' = 0
            /\ max_packets' = mp
            /\ anPc' = "reading"
            /\ anResult' = "none"
            /\ ipSeen' = 0
            /\ seen' = {}
    /\ lastPkt' = NonIP
    /\ lastNew' = FALSE
    /\ lastLens' = <<0, 0>>
    /\ UNCHANGED <<scapy, capVars>>
    /\ summary' = NoSummary
    /\ brokeAt' = "none"
    /\ anRows' = EmptyFlows
    /\ UNCHANGED <<flow_timeout>>
    /\ freshFlows' = EmptyFlows
    /\ UNCHANGED <<twin>>

\* one iteration of `for packet in reader`
ReadPacket(p) ==
    /\ anPc = "reading"
    /\ packet_count < MaxPackets
    /\ IF Truthy(max_packets) /\ packet_count >= max_packets
       THEN \* break; return self._extract_features()
            /\ anPc' = "idle"
            /\ anResult' = "ok"
            /\ UNCHANGED <<flows, packet_count, ipSeen, seen, lastPkt, lastNew, lastLens>>
       ELSE /\ flows' = ProcessPacket(flows, p)
            /\ packet_count' = packet_count + 1
            /\ ipSeen' = ipSeen + Inc(HasIP(p))
            /\ seen' = IF HasIP(p)
                       THEN seen \cup {<<SrcEndpoint(p), DstEndpoint(p), p.proto>>}
                       ELSE seen
            /\ lastPkt' = p
            /\ lastNew' = (HasIP(p) /\ FlowKey(p) \notin DOMAIN flows)
            /\ lastLens' = IF HasIP(p) /\ FlowKey(p) \in DOMAIN flows
                           THEN <<Len(flows[FlowKey(p)].fwd), Len(flows[FlowKey(p)].bwd)>>
                           ELSE <<0, 0>>
            /\ UNCHANGED <<anPc, anResult>>
    /\ UNCHANGED <<scapy, max_packets, capVars>>
    /\ brokeAt' = IF Truthy(max_packets) /\ packet_count >= max_packets
                  THEN (IF HasIP(p) THEN "ip" ELSE "nonip")
                  ELSE "none"
    /\ UNCHANGED summary
    /\ anRows' = IF Truthy(max_packets) /\ packet_count >= max_packets
                 THEN ExtractFeatures(flows)
                 ELSE anRows
    /\ UNCHANGED <<flow_timeout>>
    /\ freshFlows' = IF ~twin \/ (Truthy(max_packets) /\ packet_count >= max_packets)
                     THEN freshFlows
                     ELSE ProcessPacket(freshFlows, p)
    /\ UNCHANGED <<twin>>

\* the reader is exhausted: return self._extract_features()
EndOfFile ==
    /\ anPc = "reading"
    /\ anPc' = "idle"
    /\ anResult' = "ok"
    /\ UNCHANGED <<scapy, flows, packet_count, max_packets, ipSeen, seen, lastPkt,
                   lastNew, lastLens, capVars>>
    /\ UNCHANGED <<summary, brokeAt>>
    /\ anRows' = ExtractFeatures(flows)
    /\ UNCHANGED <<flow_timeout>>
    /\ UNCHANGED <<freshFlows>>
    /\ UNCHANGED <<twin>>

\* the reader raises part-way (truncated or corrupt capture): the exception
\* leaves analyze, self.flows keeps what was aggregated
ReadError ==
    /\ anPc = "reading"
    /\ anPc' = "idle"
    /\ anResult' = "ReadError"
    /\ UNCHANGED <<scapy, flows, packet_count, max_packets, ipSeen, seen, lastPkt,
                   lastNew, lastLens, capVars>>
    /\ UNCHANGED <<summary, brokeAt>>
    /\ UNCHANGED <<anRows>>
    /\ UNCHANGED <<flow_timeout>>
    /\ UNCHANGED <<freshFlows>>
    /\ UNCHANGED <<twin>>

\* get_summary, called between analyze calls
GetSummary ==
    /\ anPc = "idle"
    /\ summary' = Summary(flows)
    /\ UNCHANGED <<scapy, flows, anPc, packet_count, max_packets, anResult, ipSeen,
                   seen, lastPkt, lastNew, lastLens, brokeAt, anRows, capVars>>
    /\ UNCHANGED <<flow_timeout>>
    /\ UNCHANGED <<freshFlows>>
    /\ UNCHANGED <<twin>>

\* __init__ of PcapAnalyzer
InitAnalyzer(ft) ==
    /\ flow_timeout = ft
    /\ flows = EmptyFlows
    /\ anPc = "idle"
    /\ packet_count = 0
    /\ max_packets = None
    /\ anResult = "none"
    /\ ipSeen = 0
    /\ seen = {}
    /\ lastPkt = NonIP
    /\ lastNew = FALSE
    /\ lastLens = <<0, 0>>
    /\ summary = NoSummary
    /\ brokeAt = "none"
    /\ anRows = EmptyFlows
    /\ freshFlows = EmptyFlows

\* PcapAnalyzer(), no twin beside it
InitPcap == InitAnalyzer(FlowTimeoutUs) /\ twin = FALSE

\* __init__ of the three capture classes
InitCapture ==
    /\ running = FALSE
    /\ packet_queue = <<>>
    /\ self_packet_count = 0
    /\ start_time = None
    /\ thread = None
    /\ tpc = [t \in Threads |-> "unborn"]
    /\ pend = [t \in Threads |-> 0]
    /\ mainPc = "idle"
    /\ gpMax = 0
    /\ gpPackets = <<>>
    /\ gpResult = <<>>
    /\ startResult = "none"
    /\ startCalls = 0
    /\ delivered = 0
    /\ taken = <<>>
    /\ refused = {}
    /\ overlap = FALSE
    /\ gpQ0 = NoQueue
    /\ stoppedUnstarted = FALSE

\* a PcapAnalyzer and a LiveCapture, both just constructed
Init ==
    /\ scapy \in BOOLEAN
    /\ InitPcap
    /\ kind = "live"
    /\ InitCapture

\* create_capture: PacketCapture if SCAPY_AVAILABLE, else SimulatedCapture
CreateCapture == IF scapy THEN "packet" ELSE "simulated"

\* a PcapAnalyzer and the object create_capture returns
InitNet ==
    /\ scapy \in BOOLEAN
    /\ InitPcap
    /\ kind = CreateCapture
    /\ InitCapture

NextPcap ==
    \/ \E exists \in BOOLEAN, mp \in MaxPacketsArgs : Analyze(exists, mp)
    \/ \E p \in Packets : ReadPacket(p)
    \/ EndOfFile
    \/ ReadError

SpecPcap == Init /\ [][NextPcap]_vars

\* The single TCP flow scenario between A:1234 and B:80: SYN at 0 s,
\* SYN|ACK back at 0.01 s, ACK at 0.02 s, 60 bytes each.
ScenarioPacket(A, B, n) ==
    CASE n = 0 -> Packet(TRUE, A, 1234, B, 80, 6, 2, 0, 60, 0)
      [] n = 1 -> Packet(TRUE, B, 80, A, 1234, 6, 18, 10000, 60, 0)
      [] n = 2 -> Packet(TRUE, A, 1234, B, 80, 6, 16, 20000, 60, 0)

\* the packet the scenario's capture file holds next: the SYN of any two
\* distinct hosts, then the answer to the packet before
ScenarioNext ==
    IF packet_count = 0
    THEN {ScenarioPacket(c[1], c[2], 0) :
             c \in {d \in (1..MaxHost) \X (1..MaxHost) : d[1] # d[2]}}
    ELSE IF packet_count = 1
    THEN {ScenarioPacket(lastPkt.src, lastPkt.dst, 1)}
    ELSE {ScenarioPacket(lastPkt.dst, lastPkt.src, 2)}

\* analyze (and get_summary) on a capture file holding the scenario
NextScenario ==
    \/ \E exists \in BOOLEAN : Analyze(exists, None)
    \/ \E p \in ScenarioNext : ReadPacket(p)
    \/ packet_count = 3 /\ EndOfFile
    \/ ReadError
    \/ GetSummary

SpecScenario == Init /\ [][NextScenario]_vars

\* the analyzer with its summary: get_summary between the analyze calls
NextSummary == NextPcap \/ GetSummary

SpecSummary == Init /\ [][NextSummary]_vars

\* a PcapAnalyzer with its twin
InitTwin ==
    /\ scapy \in BOOLEAN
    /\ InitAnalyzer(FlowTimeoutUs) /\ twin = TRUE
    /\ kind = "live"
    /\ InitCapture

\* analyze and get_summary on capture files of the sample packets
NextSample ==
    \/ \E exists \in BOOLEAN, mp \in MaxPacketsArgs : Analyze(exists, mp)
    \/ \E p \in SamplePackets : ReadPacket(p)
    \/ EndOfFile
    \/ ReadError
    \/ GetSummary

SpecTwin == InitTwin /\ [][NextSample]_vars

\* PcapAnalyzer(flow_timeout=0.005) beside a LiveCapture
InitShortTimeout ==
    /\ scapy \in BOOLEAN
    /\ InitAnalyzer(ShortTimeoutUs) /\ twin = FALSE
    /\ kind = "live"
    /\ InitCapture

SpecTimeout == InitShortTimeout /\ [][NextSample]_vars

\* ------------------------------------------------- claims, PcapAnalyzer
RECURSIVE TotalPackets(_, _)
TotalPackets(fl, keys) ==
    IF keys = {} THEN 0
    ELSE LET k == CHOOSE x \in keys : TRUE
         IN Len(fl[k].fwd) + Len(fl[k].bwd) + TotalPackets(fl, keys \ {k})

Reversed(a, b) == a[1] = b[2] /\ a[2] = b[1] /\ a[3] = b[3]

\* The records of the flow table between the endpoints of a, with a's protocol.
RecordsFor(a) ==
    {k \in DOMAIN flows : k[3] = a[3] /\ {k[1], k[2]} = {a[1], a[2]}}

\* C1: a packet A:pa -> B:pb and a packet B:pb -> A:pa of the same protocol
\* get the same flow key, and once both were processed (in either order) the
\* flow table holds exactly one record for them.
C1_FlowKeySymmetry ==
    \A a \in seen, b \in seen :
        Reversed(a, b) =>
            /\ FlowKeyOf(a[1], a[2], a[3]) = FlowKeyOf(b[1], b[2], b[3])
            /\ RecordsFor(a) = {FlowKeyOf(a[1], a[2], a[3])}

\* the backward packet came first, the forward packet has just joined it
C1_Witness ==
    /\ \E a \in seen, b \in seen : a # b /\ Reversed(a, b)
    /\ HasIP(lastPkt) /\ ~lastNew /\ lastLens = <<0, 1>>
    /\ Len(flows[FlowKey(lastPkt)].fwd) = 1

\* C2: the first packet processed for a key is appended to the forward
\* sequence, and every later packet goes forward iff its (src_addr, src_port)
\* is the flow's recorded src_ip/src_port, otherwise backward.
C2_DirectionByFirstPacket ==
    HasIP(lastPkt) =>
        LET f == flows[FlowKey(lastPkt)]
            wentForward == Len(f.fwd) = lastLens[1] + 1 /\ Len(f.bwd) = lastLens[2]
            wentBackward == Len(f.bwd) = lastLens[2] + 1 /\ Len(f.fwd) = lastLens[1]
            fromRecordedSource == SrcEndpoint(lastPkt) = <<f.src_ip, f.src_port>>
        IN /\ lastNew => wentForward
           /\ fromRecordedSource => wentForward
           /\ ~fromRecordedSource => wentBackward

\* C3: in every flow record len(fwd_iat) = max(len(fwd) - 1, 0) and
\* len(bwd_iat) = max(len(bwd) - 1, 0): the first packet of a direction
\* produces no IAT sample.
C3_IatLength ==
    \A k \in DOMAIN flows :
        /\ Len(flows[k].fwd_iat) = Max(Len(flows[k].fwd) - 1, 0)
        /\ Len(flows[k].bwd_iat) = Max(Len(flows[k].bwd) - 1, 0)

C3_Witness ==
    \E k \in DOMAIN flows :
        /\ Len(flows[k].fwd) = 2 /\ Len(flows[k].fwd_iat) = 1
        /\ Len(flows[k].bwd) = 1 /\ flows[k].bwd_iat = <<>>

\* C4: the packets held by all flow records together, len(fwd) + len(bwd)
\* summed over the table, are the packets with an IP layer processed since
\* the table was cleared; a packet without one adds nothing.
C4_PacketConservation == TotalPackets(flows, DOMAIN flows) = ipSeen

C4_Witness ==
    /\ Cardinality(DOMAIN flows) = 2
    /\ ipSeen = 2
    /\ packet_count = 3

\* C5: every IAT sample of every flow record is >= 0, also when a packet
\* carries a timestamp earlier than the previous packet of its direction.
C5_IatNonNegative ==
    \A k \in DOMAIN flows :
        /\ \A i \in DOMAIN flows[k].fwd_iat : flows[k].fwd_iat[i] >= 0
        /\ \A i \in DOMAIN flows[k].bwd_iat : flows[k].bwd_iat[i] >= 0

\* C6: the duration dividing flow_bytes_per_s and flow_packets_per_s is at
\* least epsilon for every record, so flow_duration >= 1 microsecond and both
\* rates are defined (and not negative).
C6_DurationAtLeastEpsilon ==
    \A k \in DOMAIN flows :
        /\ Duration(flows[k]) >= EpsilonUs
        /\ Features(flows[k]).flow_duration >= 1
        /\ Features(flows[k]).flow_bytes_per_s >= 0
        /\ Features(flows[k]).flow_packets_per_s >= 0

\* a single-packet flow beside a flow whose timestamps went backwards
C6_Witness ==
    \E k1 \in DOMAIN flows, k2 \in DOMAIN flows :
        /\ Len(flows[k1].fwd) + Len(flows[k1].bwd) = 1
        /\ flows[k2].end < flows[k2].start

\* ------------------------------------------------------ capture, pure
\* queue.Queue(maxsize): put fails with queue.Full when qsize() >= maxsize
Full(q) == Len(q) >= QueueCap

\* Mutant of LiveEvict: the newest queued packet is removed.
LiveEvictNewest(q) == SubSeq(q, 1, Len(q) - 1)

\* self.packet_queue.get()  # Remove oldest
LiveEvict(q) == Tail(q)

\* Mutant of NetPut: a full queue gives up its oldest packet for the new one.
NetPutDropOldest(q, x) == IF Full(q) THEN Append(Tail(q), x) ELSE Append(q, x)

\* self.packet_queue.put(x, block=False) with `except queue.Full: pass`
NetPut(q, x) == IF Full(q) THEN q ELSE Append(q, x)

\* the capture classes whose start() needs scapy
NeedsScapy == kind \in {"live", "packet"}

\* a sniff loop is at "sniff", the generator loop at "loop", between packets
Rest == IF kind = "simulated" THEN "loop" ELSE "sniff"

Alive == {t \in Threads : tpc[t] \notin {"unborn", "done", "crashed"}}

\* get_packets' max_count / max_packets as given by the caller
GetCounts == {1, MaxDeliver}

\* ----------------------------------------- capture, the caller's steps
\* start() of the three classes; datetime.now() is later at every call
Start ==
    /\ mainPc = "idle"
    /\ startCalls < MaxStarts
    /\ startCalls' = startCalls + 1
    /\ IF NeedsScapy /\ ~scapy
       THEN /\ startResult' = IF kind = "live" THEN "ImportError" ELSE "RuntimeError"
            /\ UNCHANGED <<running, start_time, self_packet_count, thread, tpc>>
       ELSE /\ running' = TRUE
            /\ start_time' = startCalls + 1
            /\ self_packet_count' = 0
            /\ thread' = startCalls + 1
            /\ tpc' = [tpc EXCEPT ![startCalls + 1] = Rest]
            /\ startResult' = "ok"
    /\ UNCHANGED <<scapy, pcapVars, kind, packet_queue, pend, mainPc, gpMax, gpPackets,
                   gpResult, delivered, taken, refused, overlap>>
    /\ UNCHANGED <<gpQ0>>
    /\ stoppedUnstarted' = FALSE

\* Mutant of Stop: stop() also empties the queue.
StopClearsQueue ==
    /\ mainPc = "idle"
    /\ running' = FALSE
    /\ packet_queue' = <<>>
    /\ mainPc' = IF thread # None THEN "join" ELSE "idle"
    /\ UNCHANGED <<scapy, pcapVars, kind, self_packet_count, start_time,
                   thread, tpc, pend, gpMax, gpPackets, gpResult, startResult,
                   startCalls, delivered, taken, refused, overlap>>
    /\ UNCHANGED <<gpQ0>>
    /\ stoppedUnstarted' = (stoppedUnstarted \/ thread = None)

\* Mutant of Stop: stop() also resets the packet counter.
StopResetsCount ==
    /\ mainPc = "idle"
    /\ running' = FALSE
    /\ self_packet_count' = 0
    /\ mainPc' = IF thread # None THEN "join" ELSE "idle"
    /\ UNCHANGED <<scapy, pcapVars, kind, packet_queue, start_time,
                   thread, tpc, pend, gpMax, gpPackets, gpResult, startResult,
                   startCalls, delivered, taken, refused, overlap>>
    /\ UNCHANGED <<gpQ0>>
    /\ stoppedUnstarted' = (stoppedUnstarted \/ thread = None)

\* stop() up to the join: self.running = False
Stop ==
    /\ mainPc = "idle"
    /\ running' = FALSE
    /\ mainPc' = IF thread # None THEN "join" ELSE "idle"
    /\ UNCHANGED <<scapy, pcapVars, kind, packet_queue, self_packet_count, start_time,
                   thread, tpc, pend, gpMax, gpPackets, gpResult, startResult,
                   startCalls, delivered, taken, refused, overlap>>
    /\ UNCHANGED <<gpQ0>>
    /\ stoppedUnstarted' = (stoppedUnstarted \/ thread = None)

\* thread.join(timeout=2) returns: the thread has ended, or 2 seconds have passed
StopJoin ==
    /\ mainPc = "join"
    /\ mainPc' = "idle"
    /\ UNCHANGED <<scapy, pcapVars, kind, running, packet_queue, self_packet_count,
                   start_time, thread, tpc, pend, gpMax, gpPackets, gpResult,
                   startResult, startCalls, delivered, taken, refused, overlap>>
    /\ UNCHANGED <<gpQ0>>
    /\ UNCHANGED <<stoppedUnstarted>>

\* get_packets is called
GpCall(m) ==
    /\ mainPc = "idle"
    /\ gpMax' = m
    /\ gpPackets' = <<>>
    /\ mainPc' = IF kind = "live" THEN "check" ELSE "get"
    /\ UNCHANGED <<scapy, pcapVars, kind, running, packet_queue, self_packet_count,
                   start_time, thread, tpc, pend, gpResult, startResult, startCalls,
                   delivered, taken, refused, overlap>>
    /\ gpQ0' = IF Alive = {} THEN packet_queue ELSE NoQueue
    /\ UNCHANGED <<stoppedUnstarted>>

\* get_packets returns its list
GpReturn ==
    /\ gpResult' = gpPackets
    /\ gpPackets' = <<>>
    /\ gpMax' = 0
    /\ mainPc' = "idle"
    /\ UNCHANGED <<packet_queue, taken, overlap>>

\* Mutant of GpTake: the newest queued packet is handed over.
GpTakeNewest ==
    /\ gpPackets' = Append(gpPackets, packet_queue[Len(packet_queue)])
    /\ packet_queue' = SubSeq(packet_queue, 1, Len(packet_queue) - 1)
    /\ taken' = Append(taken, packet_queue[Len(packet_queue)])
    /\ overlap' = (overlap \/ \E t \in Threads : pend[t] # 0)
    /\ UNCHANGED <<gpMax, gpResult>>

\* get_nowait() hands over the oldest packet
GpTake ==
    /\ gpPackets' = Append(gpPackets, Head(packet_queue))
    /\ packet_queue' = Tail(packet_queue)
    /\ taken' = Append(taken, Head(packet_queue))
    /\ overlap' = (overlap \/ \E t \in Threads : pend[t] # 0)
    /\ UNCHANGED <<gpMax, gpResult>>

\* LiveCapture.get_packets: while len(packets) < max_count and not queue.empty()
GpCheck ==
    /\ kind = "live"
    /\ mainPc = "check"
    /\ IF Len(gpPackets) < gpMax /\ packet_queue # <<>>
       THEN /\ mainPc' = "get"
            /\ UNCHANGED <<gpMax, gpPackets, gpResult, packet_queue, taken, overlap>>
       ELSE GpReturn
    /\ UNCHANGED <<scapy, pcapVars, kind, running, self_packet_count, start_time,
                   thread, tpc, pend, startResult, startCalls, delivered, refused>>
    /\ gpQ0' = IF mainPc' = "idle" THEN NoQueue ELSE gpQ0
    /\ UNCHANGED <<stoppedUnstarted>>

\* LiveCapture.get_packets: get_nowait(), `except queue.Empty: break`
GpGet ==
    /\ kind = "live"
    /\ mainPc = "get"
    /\ IF packet_queue = <<>>
       THEN GpReturn
       ELSE GpTake /\ mainPc' = "check"
    /\ UNCHANGED <<scapy, pcapVars, kind, running, self_packet_count, start_time,
                   thread, tpc, pend, startResult, startCalls, delivered, refused>>
    /\ gpQ0' = IF mainPc' = "idle" THEN NoQueue ELSE gpQ0
    /\ UNCHANGED <<stoppedUnstarted>>

\* PacketCapture.get_packets, SimulatedCapture.get_packets: one turn of
\* `while len(packets) < max_packets: get_nowait()` inside try/except queue.Empty
GpGetNet ==
    /\ kind # "live"
    /\ mainPc = "get"
    /\ IF Len(gpPackets) >= gpMax \/ packet_queue = <<>>
       THEN GpReturn
       ELSE GpTake /\ mainPc' = "get"
    /\ UNCHANGED <<scapy, pcapVars, kind, running, self_packet_count, start_time,
                   thread, tpc, pend, startResult, startCalls, delivered, refused>>
    /\ gpQ0' = IF mainPc' = "idle" THEN NoQueue ELSE gpQ0
    /\ UNCHANGED <<stoppedUnstarted>>

\* ------------------------------------ capture, the capture thread's steps
\* sniff hands a packet to LiveCapture._process_packet: up to put_nowait
LcDeliver(t, ip) ==
    /\ kind = "live"
    /\ tpc[t] = "sniff"
    /\ IF ~ip
       THEN /\ tpc' = [tpc EXCEPT ![t] = "filter"]
            /\ UNCHANGED <<self_packet_count, delivered, pend, overlap>>
       ELSE /\ delivered < MaxDeliver
            /\ self_packet_count' = self_packet_count + 1
            /\ delivered' = delivered + 1
            /\ pend' = [pend EXCEPT ![t] = delivered + 1]
            /\ overlap' = (overlap \/ taken # <<>>)
            /\ tpc' = [tpc EXCEPT ![t] = "put"]
    /\ UNCHANGED <<scapy, pcapVars, kind, running, packet_queue, start_time, thread,
                   mainPc, gpMax, gpPackets, gpResult, startResult, startCalls, taken,
                   refused>>
    /\ UNCHANGED <<gpQ0>>
    /\ UNCHANGED <<stoppedUnstarted>>

\* self.packet_queue.put_nowait(pkt_info), or queue.Full is raised and caught
LcPut(t) ==
    /\ kind = "live"
    /\ tpc[t] = "put"
    /\ IF Full(packet_queue)
       THEN /\ tpc' = [tpc EXCEPT ![t] = "evict"]
            /\ refused' = refused \cup {pend[t]}
            /\ UNCHANGED <<packet_queue, pend>>
       ELSE /\ packet_queue' = Append(packet_queue, pend[t])
            /\ pend' = [pend EXCEPT ![t] = 0]
            /\ tpc' = [tpc EXCEPT ![t] = "filter"]
            /\ UNCHANGED refused
    /\ UNCHANGED <<scapy, pcapVars, kind, running, self_packet_count, start_time,
                   thread, mainPc, gpMax, gpPackets, gpResult, startResult, startCalls,
                   delivered, taken, overlap>>
    /\ UNCHANGED <<gpQ0>>
    /\ UNCHANGED <<stoppedUnstarted>>

\* self.packet_queue.get(): blocks while the queue is empty
LcEvict(t) ==
    /\ kind = "live"
    /\ tpc[t] = "evict"
    /\ packet_queue # <<>>
    /\ packet_queue' = LiveEvict(packet_queue)
    /\ tpc' = [tpc EXCEPT ![t] = "put2"]
    /\ UNCHANGED <<scapy, pcapVars, kind, running, self_packet_count, start_time,
                   thread, pend, mainPc, gpMax, gpPackets, gpResult, startResult,
                   startCalls, delivered, taken, refused, overlap>>
    /\ UNCHANGED <<gpQ0>>
    /\ UNCHANGED <<stoppedUnstarted>>

\* the second put_nowait, in the except clause: queue.Full is not caught there,
\* it leaves the callback and sniff and ends _capture_loop in its except clause
LcPutAgain(t) ==
    /\ kind = "live"
    /\ tpc[t] = "put2"
    /\ IF Full(packet_queue)
       THEN /\ tpc' = [tpc EXCEPT ![t] = "crashed"]
            /\ UNCHANGED packet_queue
       ELSE /\ packet_queue' = Append(packet_queue, pend[t])
            /\ tpc' = [tpc EXCEPT ![t] = "filter"]
    /\ pend' = [pend EXCEPT ![t] = 0]
    /\ UNCHANGED <<scapy, pcapVars, kind, running, self_packet_count, start_time,
                   thread, mainPc, gpMax, gpPackets, gpResult, startResult, startCalls,
                   delivered, taken, refused, overlap>>
    /\ UNCHANGED <<gpQ0>>
    /\ UNCHANGED <<stoppedUnstarted>>

\* sniff hands a packet to PacketCapture._packet_callback: the running check
\* and _extract_flow_features
PcDeliver(t, ip) ==
    /\ kind = "packet"
    /\ tpc[t] = "sniff"
    /\ IF ~running \/ ~ip
       THEN /\ tpc' = [tpc EXCEPT ![t] = "filter"]
            /\ UNCHANGED <<delivered, pend, overlap>>
       ELSE /\ delivered < MaxDeliver
            /\ delivered' = delivered + 1
            /\ pend' = [pend EXCEPT ![t] = delivered + 1]
            /\ overlap' = (overlap \/ taken # <<>>)
            /\ tpc' = [tpc EXCEPT ![t] = "put"]
    /\ UNCHANGED <<scapy, pcapVars, kind, running, packet_queue, self_packet_count,
                   start_time, thread, mainPc, gpMax, gpPackets, gpResult, startResult,
                   startCalls, taken, refused>>
    /\ UNCHANGED <<gpQ0>>
    /\ UNCHANGED <<stoppedUnstarted>>

\* SimulatedCapture._generator_loop: `while self.running`, _generate_packet()
SimLoop(t) ==
    /\ kind = "simulated"
    /\ tpc[t] = "loop"
    /\ IF ~running
       THEN /\ tpc' = [tpc EXCEPT ![t] = "done"]
            /\ UNCHANGED <<delivered, pend, overlap>>
       ELSE /\ delivered < MaxDeliver
            /\ delivered' = delivered + 1
            /\ pend' = [pend EXCEPT ![t] = delivered + 1]
            /\ overlap' = (overlap \/ taken # <<>>)
            /\ tpc' = [tpc EXCEPT ![t] = "put"]
    /\ UNCHANGED <<scapy, pcapVars, kind, running, packet_queue, self_packet_count,
                   start_time, thread, mainPc, gpMax, gpPackets, gpResult, startResult,
                   startCalls, taken, refused>>
    /\ UNCHANGED <<gpQ0>>
    /\ UNCHANGED <<stoppedUnstarted>>

\* put(x, block=False) of PacketCapture and SimulatedCapture
NetPutStep(t) ==
    /\ kind # "live"
    /\ tpc[t] = "put"
    /\ packet_queue' = NetPut(packet_queue, pend[t])
    /\ IF Full(packet_queue)
       THEN \* except queue.Full: pass
            /\ refused' = refused \cup {pend[t]}
            /\ pend' = [pend EXCEPT ![t] = 0]
            /\ tpc' = [tpc EXCEPT ![t] = IF kind = "simulated" THEN "loop" ELSE "filter"]
       ELSE /\ tpc' = [tpc EXCEPT ![t] = "count"]
            /\ UNCHANGED <<refused, pend>>
    /\ UNCHANGED <<scapy, pcapVars, kind, running, self_packet_count, start_time,
                   thread, mainPc, gpMax, gpPackets, gpResult, startResult, startCalls,
                   delivered, taken, overlap>>
    /\ UNCHANGED <<gpQ0>>
    /\ UNCHANGED <<stoppedUnstarted>>

\* self.packet_count += 1 after the put; then time.sleep(0.05) in the generator
NetCount(t) ==
    /\ kind # "live"
    /\ tpc[t] = "count"
    /\ self_packet_count' = self_packet_count + 1
    /\ pend' = [pend EXCEPT ![t] = 0]
    /\ tpc' = [tpc EXCEPT ![t] = IF kind = "simulated" THEN "loop" ELSE "filter"]
    /\ UNCHANGED <<scapy, pcapVars, kind, running, packet_queue, start_time, thread,
                   mainPc, gpMax, gpPackets, gpResult, startResult, startCalls,
                   delivered, taken, refused, overlap>>
    /\ UNCHANGED <<gpQ0>>
    /\ UNCHANGED <<stoppedUnstarted>>

\* sniff's stop_filter=lambda x: not self.running, asked after each packet's prn
StopFilter(t) ==
    /\ kind # "simulated"
    /\ tpc[t] = "filter"
    /\ tpc' = [tpc EXCEPT ![t] = IF ~running THEN "done" ELSE "sniff"]
    /\ UNCHANGED <<scapy, pcapVars, kind, running, packet_queue, self_packet_count,
                   start_time, thread, pend, mainPc, gpMax, gpPackets, gpResult,
                   startResult, startCalls, delivered, taken, refused, overlap>>
    /\ UNCHANGED <<gpQ0>>
    /\ UNCHANGED <<stoppedUnstarted>>

\* sniff raises (no privilege, bad interface): the except clause of the capture
\* loop; PacketCapture's also sets self.running = False
SniffRaise(t) ==
    /\ kind # "simulated"
    /\ tpc[t] = "sniff"
    /\ tpc' = [tpc EXCEPT ![t] = "done"]
    /\ running' = IF kind = "packet" THEN FALSE ELSE running
    /\ UNCHANGED <<scapy, pcapVars, kind, packet_queue, self_packet_count, start_time,
                   thread, pend, mainPc, gpMax, gpPackets, gpResult, startResult,
                   startCalls, delivered, taken, refused, overlap>>
    /\ UNCHANGED <<gpQ0>>
    /\ UNCHANGED <<stoppedUnstarted>>

NextLive ==
    \/ Start
    \/ Stop
    \/ StopJoin
    \/ \E m \in GetCounts : GpCall(m)
    \/ GpCheck
    \/ GpGet
    \/ \E t \in Threads, ip \in BOOLEAN : LcDeliver(t, ip)
    \/ \E t \in Threads : LcPut(t)
    \/ \E t \in Threads : LcEvict(t)
    \/ \E t \in Threads : LcPutAgain(t)
    \/ \E t \in Threads : StopFilter(t)
    \/ \E t \in Threads : SniffRaise(t)

SpecLive == Init /\ [][NextLive]_vars

NextNet ==
    \/ Start
    \/ Stop
    \/ StopJoin
    \/ \E m \in GetCounts : GpCall(m)
    \/ GpGetNet
    \/ \E t \in Threads, ip \in BOOLEAN : PcDeliver(t, ip)
    \/ \E t \in Threads : SimLoop(t)
    \/ \E t \in Threads : NetPutStep(t)
    \/ \E t \in Threads : NetCount(t)
    \/ \E t \in Threads : StopFilter(t)
    \/ \E t \in Threads : SniffRaise(t)

SpecNet == InitNet /\ [][NextNet]_vars

\* a PcapAnalyzer and a capture object built by its class: a LiveCapture or
\* a PacketCapture, with scapy installed or not
InitAnyCapture ==
    /\ scapy \in BOOLEAN
    /\ InitPcap
    /\ kind \in {"live", "packet"}
    /\ InitCapture

\* start, stop and the capture threads' steps of both classes
NextProducers ==
    \/ Start
    \/ Stop
    \/ StopJoin
    \/ \E t \in Threads, ip \in BOOLEAN : LcDeliver(t, ip)
    \/ \E t \in Threads : LcPut(t)
    \/ \E t \in Threads : LcEvict(t)
    \/ \E t \in Threads : LcPutAgain(t)
    \/ \E t \in Threads, ip \in BOOLEAN : PcDeliver(t, ip)
    \/ \E t \in Threads : NetPutStep(t)
    \/ \E t \in Threads : NetCount(t)
    \/ \E t \in Threads : StopFilter(t)
    \/ \E t \in Threads : SniffRaise(t)

\* the same with the consumer's get_packets
NextCapture ==
    \/ NextProducers
    \/ \E m \in GetCounts : GpCall(m)
    \/ GpCheck
    \/ GpGet
    \/ GpGetNet

SpecCapture == InitAnyCapture /\ [][NextCapture]_vars

\* one capture session: the object is started once
NextSession == NextCapture /\ startCalls' <= 1

SpecSession == InitAnyCapture /\ [][NextSession]_vars

\* the three packet handlers: the analyzer and a capture object share no
\* state, so a run works with the analyzer (a capture object left as
\* constructed beside it) or with the capture object's producers
NextFrames ==
    \/ kind = "live" /\ InitCapture /\ NextPcap
    \/ InitPcap /\ NextProducers

SpecFrames == InitAnyCapture /\ [][NextFrames]_vars

\* an object of any of the three capture classes, built by its class
InitLifecycle ==
    /\ scapy \in BOOLEAN
    /\ InitPcap
    /\ kind \in {"live", "packet", "simulated"}
    /\ InitCapture

\* start, stop and the capture threads' steps of the three classes
NextLifecycle ==
    \/ NextProducers
    \/ \E t \in Threads : SimLoop(t)

SpecLifecycle == InitLifecycle /\ [][NextLifecycle]_vars

\* A capture thread that can take a step of its own takes it, and join
\* returns; that a packet arrives on the interface is nobody's promise.
ThreadFairness ==
    /\ WF_vars(StopJoin)
    /\ \A t \in Threads :
          /\ WF_vars(LcPut(t)) /\ WF_vars(LcEvict(t)) /\ WF_vars(LcPutAgain(t))
          /\ WF_vars(NetPutStep(t)) /\ WF_vars(NetCount(t))
          /\ WF_vars(StopFilter(t)) /\ WF_vars(SimLoop(t))

SpecLifecycleFair == SpecLifecycle /\ ThreadFairness

\* ---------------------------------------------------- claims, capture
Range(q) == {q[i] : i \in DOMAIN q}

Increasing(q) == \A i \in DOMAIN q, j \in DOMAIN q : i < j => q[i] < q[j]

IsSuffix(a, b) ==
    Len(a) <= Len(b) /\ SubSeq(b, Len(b) - Len(a) + 1, Len(b)) = a

\* the latest min(n, QueueCap) of the packets 1..n, oldest first
LastIds(n) ==
    LET m == IF n < QueueCap THEN n ELSE QueueCap
    IN [i \in 1..m |-> n - m + i]

\* the packets some capture thread holds between its arrival and its enqueueing
Pending == {pend[t] : t \in Threads} \ {0}

\* C7: when one LiveCapture capture thread has delivered its packets and the
\* consumer has removed none before or during that, the queue holds exactly
\* the latest `capacity` of them, and get_packets hands them over oldest first.
C7_LiveDropOldest ==
    (kind = "live" /\ startCalls <= 1 /\ ~overlap /\ Pending = {}) =>
        /\ taken \o packet_queue = LastIds(delivered)
        /\ IsSuffix(gpResult \o gpPackets, taken)

\* capacity + 1 packets were delivered, then get_packets returned the queue
C7_Witness ==
    /\ kind = "live" /\ startCalls = 1 /\ ~overlap /\ Pending = {}
    /\ delivered = QueueCap + 1
    /\ mainPc = "idle"
    /\ gpResult = LastIds(delivered)
    /\ Len(gpResult) = QueueCap
    /\ packet_queue = <<>>

C9_LiveProducerConsumerSafe ==
    (kind = "live" /\ startCalls <= 1) =>
        /\ \A t \in Threads : tpc[t] = "evict" => packet_queue # <<>>
        /\ \A t \in Threads : tpc[t] # "crashed"
        /\ Len(packet_queue) <= QueueCap
        /\ Increasing(taken)

\* C10: a start() call that finds the capture running fails with
\* AlreadyRunning and changes nothing (running, start_time, packet_count, the
\* thread, the queue), so at most one capture thread is alive.
C10_StartWhileRunning ==
    [][/\ (startCalls' = startCalls + 1 /\ running) =>
            /\ startResult' = "AlreadyRunning"
            /\ UNCHANGED <<running, start_time, self_packet_count, thread, tpc,
                           packet_queue>>
       /\ Cardinality(Alive)' <= 1]_vars

IsPrefix(a, b) == Len(a) <= Len(b) /\ SubSeq(b, 1, Len(a)) = a

\* the step is the call of stop() (the caller goes on to the join) or its return
StopStep == mainPc' # mainPc /\ "join" \in {mainPc, mainPc'}

\* the step is the eviction in a LiveCapture callback that met a full queue
EvictStep == \E t \in Threads : tpc[t] = "evict" /\ tpc'[t] = "put2"

Min(a, b) == IF a <= b THEN a ELSE b

\* a step of get_packets
GpStep == GpCheck \/ GpGet \/ GpGetNet

\* C12: get_packets never waits (a read of a queue can wait only while the
\* queue is empty: there too the call can take its next step), and called
\* while no capture thread is alive (no producer) it returns exactly the
\* min(max_count, queue size) oldest packets of the queue it was called on,
\* oldest first, and leaves the rest in the queue; on an empty queue it
\* returns the empty list.
C12_Drain ==
    [][/\ (mainPc \in {"check", "get"} /\ packet_queue = <<>>) => ENABLED GpStep
       /\ (mainPc \in {"check", "get"} /\ mainPc' = "idle" /\ gpQ0 # NoQueue) =>
             LET n == Min(gpMax, Len(gpQ0))
             IN /\ gpResult' = SubSeq(gpQ0, 1, n)
                /\ packet_queue' = SubSeq(gpQ0, n + 1, Len(gpQ0))
                /\ (gpQ0 = <<>> => gpResult' = <<>>)]_vars

\* get_packets(1) on a full queue has taken the oldest packet and is about to
\* return it, the others stay queued
C12_Witness ==
    /\ gpQ0 # NoQueue /\ Len(gpQ0) = QueueCap
    /\ gpMax = 1 /\ gpMax < Len(gpQ0)
    /\ gpPackets = <<Head(gpQ0)>>
    /\ packet_queue = Tail(gpQ0)
    /\ mainPc \in {"check", "get"}

\* get_summary found no flow record to extract features from, if it was called
NoFlowsReported == summary \in {NoSummary, [status |-> "No flows"]}

C15_AtomicFailure ==
    (anPc = "idle" /\ anResult = "ReadError") =>
        /\ flows = EmptyFlows
        /\ NoFlowsReported

\* C16: with max_packets = N the packets aggregated are never more than N,
\* and when analyze stopped at the cap with a further IP packet in hand, it
\* has aggregated exactly N packets with an IP layer: frames without one did
\* not count against the cap.
C16_PacketCap ==
    Truthy(max_packets) =>
        /\ ipSeen <= max_packets
        /\ (anPc = "idle" /\ anResult = "ok" /\ brokeAt = "ip") => ipSeen = max_packets

\* C18: the capture A:1234->B:80 [SYN], B:80->A:1234 [SYN,ACK],
\* A:1234->B:80 [ACK] at 0, 0.01 and 0.02 s yields, whatever the distinct
\* hosts A and B, exactly one flow with recorded source A:1234, 2 forward
\* packets, 1 backward packet, syn_count 2, ack_count 2 and a flow_duration
\* of 20,000 microseconds.
C18_SingleTcpFlow ==
    (anPc = "idle" /\ anResult = "ok" /\ packet_count = 3
        /\ lastPkt = ScenarioPacket(lastPkt.src, lastPkt.dst, 2)) =>
        /\ Cardinality(DOMAIN anRows) = 1
        /\ \A k \in DOMAIN anRows :
              /\ anRows[k].src_ip = lastPkt.src
              /\ anRows[k].src_port = 1234
              /\ anRows[k].total_fwd_packets = 2
              /\ anRows[k].total_bwd_packets = 1
              /\ anRows[k].syn_count = 2
              /\ anRows[k].ack_count = 2
              /\ anRows[k].flow_duration = 20000

\* the distinct addresses of the flow table, source and destination together
DistinctAddresses ==
    {flows[k].src_ip : k \in DOMAIN flows} \cup {flows[k].dst_ip : k \in DOMAIN flows}

\* C19: the summary get_summary returned has unique_ips = the number of
\* distinct addresses among all flows' sources and destinations together
\* (an address that is a source in one flow and a destination in another
\* counts once), and total_packets = the sum over the flows of
\* total_fwd_packets + total_bwd_packets.
C19_SummaryCounts ==
    "unique_ips" \in DOMAIN summary =>
        /\ summary.unique_ips = Cardinality(DistinctAddresses)
        /\ summary.total_packets = TotalPackets(flows, DOMAIN flows)

\* the step is _process_packet of PcapAnalyzer on a frame without an IP layer
NonIPRead == packet_count' = packet_count + 1 /\ ~HasIP(lastPkt')

\* the step is the callback of capture thread t returning at once: the frame
\* has no IP layer (or, in PacketCapture, the capture is not running)
NonIPCallback(t) == tpc[t] = "sniff" /\ tpc'[t] = "filter"

\* C17: a frame without an IP layer changes nothing and aborts nothing:
\* PcapAnalyzer._process_packet leaves the flow table (and the returned rows)
\* as they are and analyze goes on reading; LiveCapture._process_packet and
\* PacketCapture._packet_callback leave the queue, packet_count and running
\* as they are and the capture thread goes on to its next packet.
C17_NonIPUnchanged ==
    [][/\ NonIPRead =>
            /\ UNCHANGED <<flows, ipSeen, seen, anResult>>
            /\ anPc' = "reading"
       /\ \A t \in Threads : NonIPCallback(t) =>
            /\ UNCHANGED <<packet_queue, self_packet_count, running, delivered,
                           pend, taken, refused>>
            /\ \A u \in Threads \ {t} : tpc'[u] = tpc[u]]_vars

\* an ARP frame among three packets: the two IP packets around it were
\* aggregated into one flow
C17_Witness ==
    /\ anPc = "reading" /\ packet_count = 3 /\ ipSeen = 2
    /\ HasIP(lastPkt) /\ ~lastNew
    /\ Cardinality(DOMAIN flows) = 1
    /\ TotalPackets(flows, DOMAIN flows) = 2

\* C20: when the capture resource cannot be acquired, start() reports it to
\* its caller and the object is not left running: so with scapy missing, and
\* so when the sniff call of the thread start() created raises (no
\* privilege, bad interface).
C20_StartErrorsPropagate ==
    [][/\ (startCalls' > 0 /\ NeedsScapy /\ ~scapy) =>
              startResult' \in {"ImportError", "RuntimeError"} /\ ~running'
       /\ (\E t \in Threads : t = thread /\ SniffRaise(t)) =>
              startResult' # "ok" /\ ~running']_vars

\* C21: stop() called on an object that is not running (never started, or
\* stopped before) can always be called, ends without an error, leaves
\* running = False and leaves the queue and packet_count as they were.
C21_StopAlwaysSafe ==
    [][/\ (mainPc = "idle" /\ ~running) => ENABLED Stop
       /\ (mainPc = "join" /\ ~running) => ENABLED StopJoin
       /\ (~running /\ (Stop \/ StopJoin)) =>
             /\ UNCHANGED <<packet_queue, self_packet_count, startResult>>
             /\ ~running']_vars

\* stop() has returned on an object that was never started
C21_Witness ==
    /\ stoppedUnstarted /\ thread = None /\ mainPc = "idle"
    /\ ~running /\ packet_queue = <<>> /\ self_packet_count = 0

\* the timestamps of the packets a flow record holds
Timestamps(f) ==
    {f.fwd[i].timestamp : i \in DOMAIN f.fwd} \cup {f.bwd[i].timestamp : i \in DOMAIN f.bwd}

\* C22: whatever the order of the timestamps, a flow's end (last-seen) time
\* is the largest timestamp of its packets so far and is not before its
\* start time.
C22_LastSeenMonotone ==
    \A k \in DOMAIN flows :
        /\ \A t \in Timestamps(flows[k]) : flows[k].end >= t
        /\ flows[k].end >= flows[k].start

\* C23: once stop() has set running to False, every capture loop still
\* alive exits in the end (unless the object is started again), also when no
\* further packet arrives.
C23_StopTerminatesLoop ==
    \A t \in Threads : (t \in Alive /\ ~running) ~> (t \notin Alive \/ running)

\* the five flag counters of a record; all 0 for a key that has no record
FlagCounts(fl, k) ==
    IF k \in DOMAIN fl
    THEN <<fl[k].syn, fl[k].ack, fl[k].fin, fl[k].rst, fl[k].psh>>
    ELSE <<0, 0, 0, 0, 0>>

\* 1 for each of SYN, ACK, FIN, RST, PSH set in the TCP header of p, 0 for
\* the others and for a packet that is not TCP
FlagsOn(p) ==
    LET on(mask) == IF p.ip /\ p.proto = 6 /\ (p.tcpflags \div mask) % 2 = 1 THEN 1 ELSE 0
    IN <<on(2), on(16), on(1), on(4), on(8)>>

\* one packet was handed to _process_packet
PacketStep == packet_count' = packet_count + 1

\* C24: a processed packet adds 1 to each of syn/ack/fin/rst/psh of its
\* record whose flag it carries, and 0 to the others; a packet that is not
\* TCP adds nothing; no counter of any record is negative or decreases while
\* the record lives.
C24_FlagCounters ==
    [][LET p == lastPkt'
           NoFlags == <<0, 0, 0, 0, 0>>
       IN \A k \in DOMAIN flows' :
             LET before == FlagCounts(flows, k)
                 after == FlagCounts(flows', k)
                 added == IF PacketStep /\ HasIP(p) /\ k = FlowKey(p)
                          THEN FlagsOn(p) ELSE NoFlags
             IN /\ after = [i \in 1..5 |-> before[i] + added[i]]
                /\ ~HasTCP(p) => added = NoFlags
                /\ \A i \in 1..5 : after[i] >= 0]_vars

\* a SYN|ACK and then a FIN|RST|PSH|ACK were counted into one record, beside
\* a UDP flow whose counters stayed 0
C24_Witness ==
    /\ HasTCP(lastPkt) /\ lastPkt.tcpflags = 29 /\ ~lastNew
    /\ FlagCounts(flows, FlowKey(lastPkt)) = <<1, 2, 1, 1, 1>>
    /\ \E k \in DOMAIN flows : k[3] = 17 /\ FlagCounts(flows, k) = <<0, 0, 0, 0, 0>>

\* what a record keeps from the packet that created it
Identity(f) == <<f.src_ip, f.src_port, f.dst_ip, f.dst_port, f.protocol, f.start>>

PacketsIn(f) == Len(f.fwd) + Len(f.bwd)

\* C25: the first packet of a key creates the key's record from its own
\* addresses, ports, protocol and timestamp; every later packet of the key
\* adds itself to that record and leaves those six values as they are; the
\* records of the other keys are not touched.
C25_RecordCreatedOnce ==
    [][(PacketStep /\ HasIP(lastPkt')) =>
          LET p == lastPkt'
              key == FlowKey(p)
          IN /\ DOMAIN flows' = DOMAIN flows \cup {key}
             /\ \A k \in DOMAIN flows \ {key} : flows'[k] = flows[k]
             /\ IF key \in DOMAIN flows
                THEN /\ Identity(flows'[key]) = Identity(flows[key])
                     /\ PacketsIn(flows'[key]) = PacketsIn(flows[key]) + 1
                ELSE /\ Identity(flows'[key]) =
                            <<p.src, SrcPort(p), p.dst, DstPort(p), p.proto, p.time>>
                     /\ PacketsIn(flows'[key]) = 1]_vars

\* the third packet of a flow came from the other end at another time than
\* the first: the record still names the first packet's source and time
C25_Witness ==
    /\ HasIP(lastPkt) /\ ~lastNew
    /\ PacketsIn(flows[FlowKey(lastPkt)]) = 3
    /\ flows[FlowKey(lastPkt)].src_ip # lastPkt.src
    /\ flows[FlowKey(lastPkt)].start # lastPkt.time

\* C26: flow_timeout is never written and decides nothing: no step of an
\* analysis removes a record, and a packet arriving more than flow_timeout
\* after its flow was last seen joins the flow's record; no second record
\* is made.
C26_TimeoutNeverConsulted ==
    [][/\ flow_timeout' = flow_timeout
       /\ PacketStep =>
             /\ DOMAIN flows \subseteq DOMAIN flows'
             /\ LET p == lastPkt'
                    key == FlowKey(p)
                IN (HasIP(p) /\ key \in DOMAIN flows
                        /\ p.time - flows[key].end > flow_timeout) =>
                      /\ DOMAIN flows' = DOMAIN flows
                      /\ PacketsIn(flows'[key]) = PacketsIn(flows[key]) + 1
                      /\ flows'[key].start = flows[key].start]_vars

\* a flow's second packet came more than flow_timeout after its first
C26_Witness ==
    /\ HasIP(lastPkt) /\ ~lastNew
    /\ PacketsIn(flows[FlowKey(lastPkt)]) = 2
    /\ lastPkt.time - flows[FlowKey(lastPkt)].start > flow_timeout

\* C27: in LiveCapture and PacketCapture running = True means that the
\* capture loop of the thread start() created is alive; a loop ended by an
\* exception of sniff leaves running = False.
C27_RunningReflectsThread ==
    (kind \in {"live", "packet"} /\ running) => thread \in Alive

\* C28: while running is False (stop() has set it, or the object was never
\* started) no step appends a packet to the queue, whatever the capture
\* threads were doing when stop() was called.
C28_NoEnqueueAfterStop ==
    [][~running => Len(packet_queue') <= Len(packet_queue)]_vars

\* C29: in PacketCapture and SimulatedCapture, whenever no capture thread is
\* between its put and its packet_count += 1, the queue holds no more
\* packets than packet_count counts, also after stop() and a second start().
C29_CountCoversQueue ==
    (kind \in {"packet", "simulated"} /\ \A t \in Threads : tpc[t] \notin {"put", "count"}) =>
        Len(packet_queue) <= self_packet_count

\* the latest analyze call got past its scapy and file checks
PastFileCheck == anResult \notin {"ImportError", "FileNotFoundError"}

\* C30: an analyze call that got past its file check leaves the flow table,
\* returns the rows and is followed by the get_summary that a PcapAnalyzer
\* just constructed (the twin) gives for the same packets and the same
\* max_packets, whatever the analyzer had analysed before.
C30_AnalyzeIndependent ==
    (twin /\ PastFileCheck) =>
        /\ flows = freshFlows
        /\ (anPc = "idle" /\ anResult = "ok") => anRows = ExtractFeatures(freshFlows)
        /\ summary # NoSummary => summary = Summary(freshFlows)

\* a second analysis returned one flow of one packet after a first one had
\* left records in the table, and get_summary was called
C30_Witness ==
    /\ twin
    /\ anPc = "idle" /\ anResult = "ok" /\ PastFileCheck
    /\ Cardinality(DOMAIN anRows) = 1 /\ ipSeen = 1 /\ packet_count = 1
    /\ "total_flows" \in DOMAIN summary /\ summary.total_packets = 1

====
